---- MODULE Spec2Model ----
(***************************************************************************)
(* Infrastructure Projects dashboard (app.py).  Every user interaction     *)
(* (a change of one sidebar selectbox) reruns main() from top to bottom:   *)
(* load_data() (cached), the four option lists, the filter, the metrics,   *)
(* the grouped outputs and the four location cross-tabulations.            *)
(*                                                                         *)
(* Cells are modelled as pandas holds them: a text cell is a string, a     *)
(* blank text cell is NaN, a cost cell is <<n>> or, when blank, << >>.     *)
(***************************************************************************)
EXTENDS Integers, Sequences, FiniteSets, TLC

VARIABLES df, selected_location, selected_status, selected_sector,
          selected_year, options, raised, delivered, filtered_df, metrics,
          location_data, status_data, resource_location, logistics_location,
          machinery_location, workforce_location

vars == <<df, selected_location, selected_status, selected_sector,
          selected_year, options, raised, delivered, filtered_df, metrics,
          location_data, status_data, resource_location, logistics_location,
          machinery_location, workforce_location>>

\* Largest number of data rows of the workbook.
MaxRows == 3

----------------------------------------------------------------------------
(* Cells and rows                                                          *)

\* A blank text cell as read_excel returns it (float nan).
NaN == "nan"

\* A blank cost cell; a filled one is <<n>>.
NaNCost == << >>

\* The synthetic first entry of every option list.
All == "All"

columns ==
  <<"S.No.", "Project Name", "Total Project Cost (In Rs.Crore)", "Sector",
    "Sub-Sector", "Project Authority", "Year", "Location", "Status",
    "Resource Management", "Logistics", "Machinery Mobilization",
    "Work Force">>

\* The columns main() reads; the other four are only displayed.
UsedColumns ==
  {"S.No.", "Total Project Cost (In Rs.Crore)", "Sector", "Year", "Location",
   "Status", "Resource Management", "Logistics", "Machinery Mobilization",
   "Work Force"}

FilterColumns == <<"Location", "Status", "Sector", "Year">>

\* Python's order on str (code point order), on the values the workbook uses.
StrOrder ==
  <<"2019", "2020", "A", "B", "Done", "Pending", "Roads", "X", "Y", "roads">>

StrRank(s) == CHOOSE i \in 1..Len(StrOrder) : StrOrder[i] = s

Project(loc, st, sec, yr, cost, rm, lg, mm, wf) ==
  [c \in UsedColumns \ {"S.No."} |->
     CASE c = "Location" -> loc
       [] c = "Status" -> st
       [] c = "Sector" -> sec
       [] c = "Year" -> yr
       [] c = "Total Project Cost (In Rs.Crore)" -> cost
       [] c = "Resource Management" -> rm
       [] c = "Logistics" -> lg
       [] c = "Machinery Mobilization" -> mm
       [] c = "Work Force" -> wf]

\* The data rows a workbook is made of.  The last one has blank Location and
\* Status cells; the second a blank cost; the fourth and fifth blank
\* requirement cells.
SheetRows ==
  { Project("A", "Done",    "Roads", "2019", <<10>>,  "X", "X", "X", "X"),
    Project("A", "Pending", "roads", "2020", NaNCost, "Y", "Y", "Y", "Y"),
    Project("B", "Done",    "Roads", "2020", <<20>>,  "X", "Y", "X", "Y"),
    Project("B", "Pending", "Roads", "2019", <<5>>,   NaN, "X", "Y", "X"),
    Project("B", "Done",    "roads", "2019", <<10>>,  "Y", NaN, NaN, NaN),
    Project(NaN, NaN,       "Roads", "2019", <<10>>,  "X", "X", "X", "X") }

\* The workbooks: up to MaxRows data rows, in any order, repeats allowed.
Sheets == UNION { [1..n -> SheetRows] : n \in 0..MaxRows }

\* read_excel binds the 13 names to the columns; S.No. is the row's number.
read_excel(sheet) ==
  [i \in 1..Len(sheet) |->
     [c \in UsedColumns |-> IF c = "S.No." THEN i ELSE sheet[i][c]]]

load_data(sheet) == read_excel(sheet)

----------------------------------------------------------------------------
(* pandas / Python helpers                                                 *)

\* frame[column]
Col(frame, column) == [i \in 1..Len(frame) |-> frame[i][column]]

Range(s) == { s[i] : i \in 1..Len(s) }

\* Series.unique(): the distinct cells in order of first appearance; all
\* blanks are one value.
RECURSIVE unique(_)
unique(s) ==
  IF s = << >> THEN << >>
  ELSE LET init == unique(SubSeq(s, 1, Len(s) - 1))
           last == s[Len(s)]
       IN IF last \in Range(init) THEN init ELSE Append(init, last)

\* sorted() of a list that mixes a float nan with a str raises TypeError;
\* a list of one element is never compared.
SortedRaises(s) == Len(s) >= 2 /\ NaN \in Range(s)

RECURSIVE InsertAsc(_, _)
InsertAsc(s, x) ==
  IF s = << >> THEN <<x>>
  ELSE IF StrRank(x) < StrRank(s[Len(s)])
       THEN Append(InsertAsc(SubSeq(s, 1, Len(s) - 1), x), s[Len(s)])
       ELSE Append(s, x)

\* sorted() of a list of str (or of the single value it holds).
RECURSIVE sorted(_)
sorted(s) ==
  IF Len(s) <= 1 THEN s
  ELSE InsertAsc(sorted(SubSeq(s, 1, Len(s) - 1)), s[Len(s)])

\* Series == value: a blank cell equals nothing, not even a blank.
Eq(cell, value) == cell # NaN /\ value # NaN /\ cell = value

\* Series.sum(): blank cells are skipped; the sum of no cell is 0.
RECURSIVE Series_sum(_)
Series_sum(s) ==
  IF s = << >> THEN 0
  ELSE Series_sum(Tail(s)) + (IF Head(s) = NaNCost THEN 0 ELSE Head(s)[1])

Reverse(s) == [i \in 1..Len(s) |-> s[Len(s) + 1 - i]]

\* The stable ascending argsort of the rows on the integer column by.
RECURSIVE InsertBy(_, _, _)
InsertBy(s, x, by) ==
  IF s = << >> THEN <<x>>
  ELSE IF x[by] < s[Len(s)][by]
       THEN Append(InsertBy(SubSeq(s, 1, Len(s) - 1), x, by), s[Len(s)])
       ELSE Append(s, x)

RECURSIVE argsort(_, _)
argsort(rows, by) ==
  IF Len(rows) <= 1 THEN rows
  ELSE InsertBy(argsort(SubSeq(rows, 1, Len(rows) - 1), by), rows[Len(rows)], by)

\* sort_values with the ascending=False argument left out.
sort_values_Ascending(rows, by, ascending) == argsort(rows, by)

\* sort_values(by, ascending): for a descending sort pandas reverses the
\* rows, sorts them ascending and reverses the result.
sort_values(rows, by, ascending) ==
  IF ascending THEN argsort(rows, by)
  ELSE Reverse(argsort(Reverse(rows), by))

\* The group keys of groupby / crosstab: blank keys are dropped, the others
\* sorted.
GroupKeys(cells) == sorted(unique(SelectSeq(cells, LAMBDA c : c # NaN)))

\* frame[frame[column] == value]
BooleanIndex(frame, column, value) ==
  SelectSeq(frame, LAMBDA r : Eq(r[column], value))

----------------------------------------------------------------------------
(* main()                                                                  *)

get_filter_options(t, column) == <<All>> \o sorted(unique(Col(t, column)))

\* The first selectbox whose option list raises, 0 when none does.
FirstRaise(t) ==
  LET bad == { i \in 1..Len(FilterColumns) :
                 SortedRaises(unique(Col(t, FilterColumns[i]))) }
  IN IF bad = {} THEN 0 ELSE CHOOSE i \in bad : \A j \in bad : i <= j

\* The option lists taken from the narrowed frame instead of df.
sidebar_FromView(t, sel) ==
  LET first == FirstRaise(t)
      Created(i) == first = 0 \/ i < first
      view == SelectSeq(t, LAMBDA r :
                \A c \in Range(FilterColumns) :
                  sel[c] # All => Eq(r[c], sel[c]))
  IN [options |->
        [c \in Range(FilterColumns) |->
           LET i == CHOOSE k \in 1..Len(FilterColumns) : FilterColumns[k] = c
           IN IF Created(i) THEN get_filter_options(view, c) ELSE << >>],
      selected |-> sel,
      raised |-> IF first = 0 THEN "none" ELSE "TypeError"]

\* The four selectboxes, top to bottom.  A selectbox returns the option the
\* user chose; a selectbox after the raising one is never created.
sidebar(t, sel) ==
  LET first == FirstRaise(t)
      Created(i) == first = 0 \/ i < first
  IN [options |->
        [c \in Range(FilterColumns) |->
           LET i == CHOOSE k \in 1..Len(FilterColumns) : FilterColumns[k] = c
           IN IF Created(i) THEN get_filter_options(t, c) ELSE << >>],
      selected |-> sel,
      raised |-> IF first = 0 THEN "none" ELSE "TypeError"]

\* The filter with the year selection left out.
ApplyFilters_NoYear(t, sel) ==
  LET f0 == t
      f1 == IF sel["Location"] # All
            THEN BooleanIndex(f0, "Location", sel["Location"]) ELSE f0
      f2 == IF sel["Status"] # All
            THEN BooleanIndex(f1, "Status", sel["Status"]) ELSE f1
      f3 == IF sel["Sector"] # All
            THEN BooleanIndex(f2, "Sector", sel["Sector"]) ELSE f2
  IN [df |-> t, filtered_df |-> f3]

\* The filter falling back to the whole table when nothing matches.
ApplyFilters_Fallback(t, sel) ==
  LET view == SelectSeq(t, LAMBDA r :
                \A c \in Range(FilterColumns) :
                  sel[c] # All => Eq(r[c], sel[c]))
  IN [df |-> t, filtered_df |-> IF view = << >> THEN t ELSE view]

\* The filter narrowing df itself instead of a copy.
ApplyFilters_InPlace(t, sel) ==
  LET view == SelectSeq(t, LAMBDA r :
                \A c \in Range(FilterColumns) :
                  sel[c] # All => Eq(r[c], sel[c]))
  IN [df |-> view, filtered_df |-> view]

\* Filter the dataframe based on selections: a copy of df, narrowed by one
\* boolean index per selection that is not "All".
ApplyFilters(t, sel) ==
  LET f0 == t
      f1 == IF sel["Location"] # All
            THEN BooleanIndex(f0, "Location", sel["Location"]) ELSE f0
      f2 == IF sel["Status"] # All
            THEN BooleanIndex(f1, "Status", sel["Status"]) ELSE f1
      f3 == IF sel["Sector"] # All
            THEN BooleanIndex(f2, "Sector", sel["Sector"]) ELSE f2
      f4 == IF sel["Year"] # All
            THEN BooleanIndex(f3, "Year", sel["Year"]) ELSE f3
  IN [df |-> t, filtered_df |-> f4]

\* The sector count taken after folding the names to lower case.
key_metrics_Lower(view) ==
  LET Lower(x) == IF x = "Roads" THEN "roads" ELSE x
  IN [count |-> Len(view),
      total_cost |-> Series_sum(Col(view, "Total Project Cost (In Rs.Crore)")),
      sectors |-> Cardinality({ Lower(x) : x \in Range(Col(view, "Sector")) })]

\* The three st.metric values.
key_metrics(view) ==
  [count |-> Len(view),
   total_cost |-> Series_sum(Col(view, "Total Project Cost (In Rs.Crore)")),
   sectors |-> Len(unique(Col(view, "Sector")))]

\* groupby(column)[cost].count(): the records with a blank cost not counted.
groupby_size_Count(view, column) ==
  LET keys == GroupKeys(Col(view, column))
  IN [i \in 1..Len(keys) |->
        [index |-> keys[i],
         value |-> Cardinality({ j \in 1..Len(view) :
                     /\ view[j][column] = keys[i]
                     /\ view[j]["Total Project Cost (In Rs.Crore)"] # NaNCost })]]

\* groupby(column).size(): one entry per key, in key order.
groupby_size(view, column) ==
  LET keys == GroupKeys(Col(view, column))
  IN [i \in 1..Len(keys) |->
        [index |-> keys[i],
         value |-> Cardinality({ j \in 1..Len(view) : view[j][column] = keys[i] })]]

\* reset_index(name): the index becomes the column column, the values the
\* column name.
reset_index(series, column, name) ==
  [i \in 1..Len(series) |->
     (column :> series[i].index @@ name :> series[i].value)]

count_by_location(view) ==
  reset_index(sort_values(groupby_size(view, "Location"), "value", FALSE),
              "Location", "Number of Projects")

\* groupby('Status')[cost].sum().reset_index()
cost_by_status(view) ==
  LET keys == GroupKeys(Col(view, "Status"))
      cost == "Total Project Cost (In Rs.Crore)"
  IN [i \in 1..Len(keys) |->
        ("Status" :> keys[i] @@
         cost :> Series_sum(Col(BooleanIndex(view, "Status", keys[i]), cost)))]

\* pd.crosstab(view[row], view[col]): the records with a blank in either
\* column are dropped; one row per remaining row key, one column per
\* remaining column key, each cell the number of records, 0 when none.
crosstab(view, row, col) ==
  LET kept == SelectSeq(view, LAMBDA r : r[row] # NaN /\ r[col] # NaN)
      rowkeys == GroupKeys(Col(kept, row))
      colkeys == Range(Col(kept, col))
  IN [i \in 1..Len(rowkeys) |->
        (row :> rowkeys[i]) @@
        [c \in colkeys |->
           Cardinality({ j \in 1..Len(kept) :
                           kept[j][row] = rowkeys[i] /\ kept[j][col] = c })]]

RECURSIVE SumOver(_, _)
SumOver(f, S) ==
  IF S = {} THEN 0
  ELSE LET x == CHOOSE y \in S : TRUE IN f[x] + SumOver(f, S \ {x})

\* table.sum(axis=1): the sum of a row's columns (the index is no column).
row_sum(r, index) == SumOver(r, DOMAIN r \ {index})

\* table['Total Projects'] = table.sum(axis=1)
add_total(table, index) ==
  [i \in 1..Len(table) |->
     ("Total Projects" :> row_sum(table[i], index)) @@ table[i]]

\* The table of one tab: crosstab, total column, rows sorted by it.
requirements_by_location(view, col) ==
  sort_values(add_total(crosstab(view, "Location", col), "Location"),
              "Total Projects", FALSE)

Aggregates ==
  {"filtered_df", "metrics", "location_data", "status_data",
   "resource_location", "logistics_location", "machinery_location",
   "workforce_location"}

NoMetrics == [count |-> 0, total_cost |-> 0, sectors |-> 0]

\* One run of main() on the cached table t with the widget state sel.  An
\* exception ends the run: nothing after the raising statement is computed.
main(t, sel) ==
  LET side == sidebar(t, sel)
      f == ApplyFilters(t, side.selected)
      view == f.filtered_df
  IN IF side.raised # "none"
     THEN [df |-> t, options |-> side.options, raised |-> side.raised,
           delivered |-> {}, filtered_df |-> << >>, metrics |-> NoMetrics,
           location_data |-> << >>, status_data |-> << >>,
           resource_location |-> << >>, logistics_location |-> << >>,
           machinery_location |-> << >>, workforce_location |-> << >>]
     ELSE [df |-> f.df, options |-> side.options, raised |-> "none",
           delivered |-> Aggregates, filtered_df |-> view,
           metrics |-> key_metrics(view),
           location_data |-> count_by_location(view),
           status_data |-> cost_by_status(view),
           resource_location |->
             requirements_by_location(view, "Resource Management"),
           logistics_location |->
             requirements_by_location(view, "Logistics"),
           machinery_location |->
             requirements_by_location(view, "Machinery Mobilization"),
           workforce_location |->
             requirements_by_location(view, "Work Force")]

----------------------------------------------------------------------------
(* The state machine: the first run, then one rerun per selectbox change   *)

Selection(loc, st, sec, yr) ==
  [c \in Range(FilterColumns) |->
     CASE c = "Location" -> loc
       [] c = "Status" -> st
       [] c = "Sector" -> sec
       [] c = "Year" -> yr]

selected == Selection(selected_location, selected_status, selected_sector,
                      selected_year)

\* The state a run leaves behind.
Shown(r, sel) ==
  /\ df' = r.df
  /\ selected_location' = sel["Location"]
  /\ selected_status' = sel["Status"]
  /\ selected_sector' = sel["Sector"]
  /\ selected_year' = sel["Year"]
  /\ options' = r.options
  /\ raised' = r.raised
  /\ delivered' = r.delivered
  /\ filtered_df' = r.filtered_df
  /\ metrics' = r.metrics
  /\ location_data' = r.location_data
  /\ status_data' = r.status_data
  /\ resource_location' = r.resource_location
  /\ logistics_location' = r.logistics_location
  /\ machinery_location' = r.machinery_location
  /\ workforce_location' = r.workforce_location

Rerun(sel) == Shown(main(df, sel), sel)

\* The first run: load_data() reads the workbook, every selectbox is at
\* index 0.
Init ==
  \E sheet \in Sheets :
    LET sel == Selection(All, All, All, All)
        r == main(load_data(sheet), sel)
    IN /\ df = r.df
       /\ selected_location = All
       /\ selected_status = All
       /\ selected_sector = All
       /\ selected_year = All
       /\ options = r.options
       /\ raised = r.raised
       /\ delivered = r.delivered
       /\ filtered_df = r.filtered_df
       /\ metrics = r.metrics
       /\ location_data = r.location_data
       /\ status_data = r.status_data
       /\ resource_location = r.resource_location
       /\ logistics_location = r.logistics_location
       /\ machinery_location = r.machinery_location
       /\ workforce_location = r.workforce_location

SelectLocation ==
  \E v \in Range(options["Location"]) :
    /\ v # selected_location
    /\ Rerun(Selection(v, selected_status, selected_sector, selected_year))

SelectStatus ==
  \E v \in Range(options["Status"]) :
    /\ v # selected_status
    /\ Rerun(Selection(selected_location, v, selected_sector, selected_year))

SelectSector ==
  \E v \in Range(options["Sector"]) :
    /\ v # selected_sector
    /\ Rerun(Selection(selected_location, selected_status, v, selected_year))

SelectYear ==
  \E v \in Range(options["Year"]) :
    /\ v # selected_year
    /\ Rerun(Selection(selected_location, selected_status, selected_sector, v))

Next == SelectLocation \/ SelectStatus \/ SelectSector \/ SelectYear

Spec == Init /\ [][Next]_vars

----------------------------------------------------------------------------
(* Properties                                                              *)

\* The rows of df that pass every selection that is not "All" (== of pandas).
Matching ==
  { i \in 1..Len(df) :
      \A c \in Range(FilterColumns) :
        selected[c] # All => Eq(df[i][c], selected[c]) }

RECURSIVE SumField(_, _)
SumField(rows, f) ==
  IF rows = << >> THEN 0 ELSE rows[1][f] + SumField(Tail(rows), f)

Tabs ==
  <<resource_location, logistics_location, machinery_location,
    workforce_location>>

TabColumn ==
  <<"Resource Management", "Logistics", "Machinery Mobilization",
    "Work Force">>

\* C1: the filtered view is exactly the rows of the table that equal every
\* selection that is not "All", each once, in table order.
C1_FilteredViewExact ==
  "filtered_df" \in delivered =>
    /\ Len(filtered_df) = Cardinality(Matching)
    /\ \A k \in 1..Len(filtered_df) :
         /\ filtered_df[k]["S.No."] \in Matching
         /\ filtered_df[k] = df[filtered_df[k]["S.No."]]
    /\ \A k \in 1..(Len(filtered_df) - 1) :
         filtered_df[k]["S.No."] < filtered_df[k + 1]["S.No."]

\* Two filters are active and the view is rows 1 and 3 of a larger table.
C1_Witness ==
  /\ "filtered_df" \in delivered
  /\ selected_status # All
  /\ selected_sector # All
  /\ Len(df) = 3
  /\ Len(filtered_df) = 2
  /\ filtered_df[1]["S.No."] = 1
  /\ filtered_df[2]["S.No."] = 3

OptionsOfFullTable(c) ==
  LET o == options[c]
  IN /\ o[1] = All
     /\ Len(o) = 1 + Cardinality(Range(Col(df, c)))
     /\ { o[i] : i \in 2..Len(o) } = Range(Col(df, c))
     /\ \A i, j \in 2..Len(o) : i < j => StrRank(o[i]) < StrRank(o[j])

\* C2: whatever is selected, every option list is "All" followed by the
\* sorted distinct values of its column in the full table.
C2_OptionsFromFullTable ==
  /\ raised = "none" => \A c \in Range(FilterColumns) : options[c] # << >>
  /\ \A c \in Range(FilterColumns) :
       options[c] # << >> => OptionsOfFullTable(c)

\* Status "Done" is selected, the view has one location, and the location
\* list still offers both.
C2_Witness ==
  /\ raised = "none"
  /\ selected_status = "Done"
  /\ Cardinality(Range(Col(filtered_df, "Location"))) = 1
  /\ options["Location"] = <<All, "A", "B">>

\* C3: in each of the four cross-tabulations every row's Total Projects is
\* the sum of the row's other columns, and the totals add up to the number
\* of records of the view.
C3_CrossTabTotals ==
  "resource_location" \in delivered =>
    \A k \in 1..Len(Tabs) :
      /\ \A i \in 1..Len(Tabs[k]) :
           Tabs[k][i]["Total Projects"] =
             SumOver(Tabs[k][i],
                     DOMAIN Tabs[k][i] \ {"Location", "Total Projects"})
      /\ SumField(Tabs[k], "Total Projects") = Len(filtered_df)

\* C4: the rows of every cross-tabulation come in non-increasing order of
\* Total Projects.
C4_RowsSortedByTotal ==
  \A k \in 1..Len(Tabs) :
    \A i \in 1..(Len(Tabs[k]) - 1) :
      Tabs[k][i]["Total Projects"] >= Tabs[k][i + 1]["Total Projects"]

\* Status "Done" is selected and the sort moved location B, with the larger
\* total, in front of A.
C4_Witness ==
  /\ selected_status = "Done"
  /\ Len(resource_location) = 2
  /\ resource_location[1]["Location"] = "B"
  /\ resource_location[2]["Location"] = "A"
  /\ resource_location[1]["Total Projects"] >
       resource_location[2]["Total Projects"]

\* C5: when no record of the view has a blank location, the count by
\* location has one entry per location of the view and its counts add up
\* to the number of records of the view.
C5_LocationCounts ==
  ("location_data" \in delivered
     /\ NaN \notin Range(Col(filtered_df, "Location"))) =>
    /\ Len(location_data) = Cardinality(Range(Col(filtered_df, "Location")))
    /\ Range(Col(location_data, "Location")) =
         Range(Col(filtered_df, "Location"))
    /\ SumField(location_data, "Number of Projects") = Len(filtered_df)

\* A year is selected; the view has three records in two locations, one with
\* a blank cost.
C5_Witness ==
  /\ "location_data" \in delivered
  /\ selected_year # All
  /\ Len(filtered_df) = 3
  /\ NaNCost \in Range(Col(filtered_df, "Total Project Cost (In Rs.Crore)"))
  /\ Len(location_data) = 2
  /\ location_data[1]["Number of Projects"] = 2

\* C6: when the selections match no record the run does not raise and gives
\* count 0, total cost 0, empty grouped outputs and cross-tabulations with
\* no row.
C6_EmptyView ==
  Matching = {} =>
    /\ raised = "none"
    /\ delivered = Aggregates
    /\ metrics.count = 0
    /\ metrics.total_cost = 0
    /\ location_data = << >>
    /\ status_data = << >>
    /\ \A k \in 1..Len(Tabs) : Tabs[k] = << >>

\* A table with records of which the selections match none.
C6_Witness ==
  /\ Len(df) > 0
  /\ selected_location # All
  /\ selected_status # All
  /\ Matching = {}
  /\ delivered = Aggregates
  /\ filtered_df = << >>

\* C7: count is the number of records of the view, the total cost the sum
\* of the costs that are not blank, the sector count the number of distinct
\* sector names, compared exactly.
C7_Metrics ==
  "metrics" \in delivered =>
    LET cost == [i \in 1..Len(filtered_df) |->
                   filtered_df[i]["Total Project Cost (In Rs.Crore)"]]
        priced == { i \in 1..Len(filtered_df) : cost[i] # NaNCost }
        amount == [i \in priced |-> cost[i][1]]
    IN /\ metrics.count = Len(filtered_df)
       /\ metrics.total_cost = SumOver(amount, priced)
       /\ metrics.sectors = Cardinality(Range(Col(filtered_df, "Sector")))

\* The view holds a blank cost, a filled one, and both "Roads" and "roads".
C7_Witness ==
  /\ "metrics" \in delivered
  /\ selected_location = "A"
  /\ NaNCost \in Range(Col(filtered_df, "Total Project Cost (In Rs.Crore)"))
  /\ <<10>> \in Range(Col(filtered_df, "Total Project Cost (In Rs.Crore)"))
  /\ {"Roads", "roads"} \subseteq Range(Col(filtered_df, "Sector"))
  /\ metrics.sectors = 2
  /\ metrics.total_cost = 10

\* C8: no record of the view is dropped from a grouped output: it is counted
\* under its location, its status is a group of the cost by status, and in
\* every cross-tabulation it is counted in the row of its location under the
\* column of its category, a blank being a category of its own.
C8_MissingIsACategory ==
  "location_data" \in delivered =>
    \A i \in 1..Len(filtered_df) :
      /\ filtered_df[i]["Location"] \in Range(Col(location_data, "Location"))
      /\ filtered_df[i]["Status"] \in Range(Col(status_data, "Status"))
      /\ \A k \in 1..Len(Tabs) :
           \E j \in 1..Len(Tabs[k]) :
             /\ Tabs[k][j]["Location"] = filtered_df[i]["Location"]
             /\ filtered_df[i][TabColumn[k]] \in DOMAIN Tabs[k][j]
             /\ Tabs[k][j][filtered_df[i][TabColumn[k]]] >= 1

\* C9: every aggregate of a run is computed and delivered, whether or not a
\* computation of the run raised.
C9_FailureIsIsolated == Aggregates \subseteq delivered

\* C10: no run changes the loaded table.
C10_TableNeverModified == [][df' = df]_vars

\* A run has narrowed the view and built a cross-tabulation with its total
\* column, and the table still has its three rows and its own columns.
C10_Witness ==
  /\ selected_location # All
  /\ selected_year # All
  /\ Len(df) = 3
  /\ Len(filtered_df) = 1
  /\ Len(resource_location) = 1
  /\ "Total Projects" \in DOMAIN resource_location[1]
  /\ \A i \in 1..Len(df) : DOMAIN df[i] = UsedColumns /\ df[i]["S.No."] = i

====
